---------------------------- MODULE Spec2Model ----------------------------
(***************************************************************************)
(* A model of py-code-analyzer's scope and dependency analysis:            *)
(*   src/tree/structures.py  Block, Variable, BlockType, the two scope     *)
(*                           chain lookups                                 *)
(*   src/tree/walker.py      TreeWalker, the cursor-driven traversal       *)
(*                                                                         *)
(* The concrete syntax tree is a value: a node is a record with its type,  *)
(* its field name relative to its parent, its text, its children and its   *)
(* first and last row.  The cursor is the path of child indices from the   *)
(* root.  The recursion of the walker is an explicit stack of frames, one  *)
(* per active method call, each with the block it was called with.         *)
(***************************************************************************)
EXTENDS Integers, Sequences, FiniteSets, TLC

(***************************************************************************)
(* Bounds of the model.                                                    *)
(***************************************************************************)
\* statements in the body of the varied definition
MaxStmts == 2
\* top-level items of a module built from small definitions
MaxItems == 2
\* length of a scope chain given to the lookups on their own
MaxChain == 3

(***************************************************************************)
(* Python values.  A bytes value (node.text, a name) is the sequence of    *)
(* its segments between dots, so that bytes.split(b'.') is the sequence    *)
(* itself; a plain identifier has one segment.                             *)
(***************************************************************************)
Bytes(s) == <<s>>
\* None, where a bytes value is expected (Block.name)
NoName == <<>>
\* None, where a line number is expected (Block.starts_at, Block.ends_at)
NoLine == -1
\* None, where a Block is expected (Block.parent, a failed lookup)
NoBlock == 0
\* None, where a field name is expected (cursor.current_field_name())
NoField == "None"

(***************************************************************************)
(* The concrete syntax tree, as tree-sitter's Python grammar builds it.    *)
(***************************************************************************)
Node(type, field, text, kids) ==
    [type |-> type, field |-> field, text |-> text, kids |-> kids,
     row |-> 0, erow |-> 0]

\* an anonymous node: its text is its type
Token(type) == Node(type, NoField, Bytes(type), <<>>)

Identifier(field, name) == Node("identifier", field, Bytes(name), <<>>)

WithField(n, field) == [n EXCEPT !.field = field]

\* obj.attr
Attribute(obj, attr) ==
    Node("attribute", NoField, <<obj, attr>>,
         <<Identifier("object", obj), Token("."), Identifier("attribute", attr)>>)

\* callee()
Call(callee) ==
    Node("call", NoField, <<>>,
         <<WithField(callee, "function"),
           Node("argument_list", "arguments", <<>>, <<Token("("), Token(")")>>)>>)

ExpressionStatement(e) == Node("expression_statement", NoField, <<>>, <<e>>)

PassStatement == Node("pass_statement", NoField, <<>>, <<Token("pass")>>)

\* left = right
Assignment(left, right) ==
    Node("assignment", NoField, <<>>,
         <<WithField(left, "left"), Token("="), WithField(right, "right")>>)

\* *name
ListSplatPattern(name) ==
    Node("list_splat_pattern", NoField, <<>>,
         <<Token("*"), Identifier(NoField, name)>>)

\* a, *b
PatternList(a, b) ==
    Node("pattern_list", NoField, <<>>,
         <<Identifier(NoField, a), Token(","), ListSplatPattern(b)>>)

\* (a, *b)
TuplePattern(a, b) ==
    Node("tuple_pattern", NoField, <<>>,
         <<Token("("), Identifier(NoField, a), Token(","),
           ListSplatPattern(b), Token(")")>>)

Block(stmts) == Node("block", "body", <<>>, stmts)

Parameters(params) ==
    Node("parameters", "parameters", <<>>,
         <<Token("(")>>
         \o [i \in 1..Len(params) |-> Identifier(NoField, params[i])]
         \o <<Token(")")>>)

\* def name(params): stmts
FunctionDefinition(name, params, stmts) ==
    Node("function_definition", NoField, <<>>,
         <<Token("def"), Identifier("name", name), Parameters(params),
           Token(":"), Block(stmts)>>)

\* class name: stmts
ClassDefinition(name, stmts) ==
    Node("class_definition", NoField, <<>>,
         <<Token("class"), Identifier("name", name), Token(":"), Block(stmts)>>)

\* if cond: pass
IfStatement(cond) ==
    Node("if_statement", NoField, <<>>,
         <<Token("if"), WithField(cond, "condition"), Token(":"),
           WithField(Block(<<PassStatement>>), "consequence")>>)

\* while cond: pass
WhileStatement(cond) ==
    Node("while_statement", NoField, <<>>,
         <<Token("while"), WithField(cond, "condition"), Token(":"),
           Block(<<PassStatement>>)>>)

\* for left in right: pass
ForStatement(left, right) ==
    Node("for_statement", NoField, <<>>,
         <<Token("for"), WithField(left, "left"), Token("in"),
           WithField(right, "right"), Token(":"), Block(<<PassStatement>>)>>)

Module(items) == Node("module", NoField, <<>>, items)

(***************************************************************************)
(* Rows.  A module and a block stack their statements on consecutive       *)
(* rows; a compound statement has its header on one row and its block on   *)
(* the rows below; everything else is on the row of its parent.            *)
(***************************************************************************)
Stacked(n) == n.type \in {"module", "block"}

RECURSIVE Height(_)
RECURSIVE SumHeights(_, _)
SumHeights(kids, k) ==
    IF k = 0 THEN 0 ELSE SumHeights(kids, k - 1) + Height(kids[k])

Height(n) ==
    IF Stacked(n)
    THEN IF Len(n.kids) = 0 THEN 1 ELSE SumHeights(n.kids, Len(n.kids))
    ELSE LET blocks == {i \in 1..Len(n.kids) : n.kids[i].type = "block"}
         IN  IF blocks = {} THEN 1
             ELSE 1 + Height(n.kids[CHOOSE i \in blocks : TRUE])

RECURSIVE Layout(_, _)
Layout(n, r) ==
    LET kidRow(i) == IF Stacked(n) THEN r + SumHeights(n.kids, i - 1)
                     ELSE IF n.kids[i].type = "block" THEN r + 1 ELSE r
    IN  [n EXCEPT !.row = r,
                  !.erow = r + Height(n) - 1,
                  !.kids = [i \in 1..Len(n.kids) |-> Layout(n.kids[i], kidRow(i))]]


(***************************************************************************)
(* State.                                                                  *)
(***************************************************************************)
VARIABLES
    tree,     \* the CST of the file being analysed
    cursor,   \* TreeWalker.cursor: the path from the root to cursor.node
    blocks,   \* every Block object allocated, by identity (1, 2, ...)
    stack,    \* the active method calls, innermost last
    status,   \* "ready", "running", "returned", "raised" or "lookup"
    error,    \* the exception that left parse_file, if any
    result,   \* the Block parse_file returned, if it returned
    found     \* the last answer of a scope chain lookup made on its own

vars == <<tree, cursor, blocks, stack, status, error, result, found>>

(***************************************************************************)
(* structures.py: BlockType, Variable, Block.                              *)
(***************************************************************************)
BlockType ==
    [Module |-> "Module", Class |-> "Class", Function |-> "Function",
     Undefined |-> "Object"]

Variable(name) == [name |-> name]

\* None, where a Variable is expected
NoVariable == [name |-> NoName]

\* A Block with the defaults of the dataclass for the fields not given.
NewBlock(type, root_node, data, name, starts_at, ends_at, parent) ==
    [type |-> type, root_node |-> root_node, data |-> data, name |-> name,
     starts_at |-> starts_at, ends_at |-> ends_at, parent |-> parent,
     uses |-> <<>>, variable_table |-> <<>>, block_table |-> <<>>]

\* ModuleBlockData(declared_in=file_path); None is the empty tuple
ModuleBlockData(file_path) == <<"ModuleBlockData", file_path>>
NoData == <<>>

\* None, where a Node is expected (Block.root_node of an Undefined block)
NoNode == <<-1>>

(***************************************************************************)
(* A dict, in insertion order: a sequence of [key, value] entries.         *)
(***************************************************************************)
DictKeys(d) == {d[i].key : i \in 1..Len(d)}

DictHas(d, k) == \E i \in 1..Len(d) : d[i].key = k

\* d[k], for a key d has
DictAt(d, k) == d[CHOOSE i \in 1..Len(d) : d[i].key = k].value

\* d[k] = v
DictSet(d, k, v) ==
    IF DictHas(d, k)
    THEN [i \in 1..Len(d) |-> IF d[i].key = k THEN [key |-> k, value |-> v] ELSE d[i]]
    ELSE Append(d, [key |-> k, value |-> v])

(***************************************************************************)
(* Block.get_variable_in_scope: the loop runs once per block of the chain, *)
(* and each round looks into the table set by the round before it.         *)
(***************************************************************************)
RECURSIVE GetVariableLoop(_, _, _, _)
GetVariableLoop(bs, parent, table, name) ==
    IF parent = NoBlock THEN NoVariable
    ELSE IF DictHas(table, name) THEN DictAt(table, name)
    ELSE GetVariableLoop(bs, bs[parent].parent, bs[parent].variable_table, name)

\* A lookup that ends after the block's own table.
GetVariableInScopeOwnTable(bs, self, name) ==
    IF DictHas(bs[self].variable_table, name)
    THEN DictAt(bs[self].variable_table, name) ELSE NoVariable

GetVariableInScope(bs, self, name) ==
    GetVariableLoop(bs, self, bs[self].variable_table, name)

(***************************************************************************)
(* Block.get_block_in_scope: the loop runs while there is a table; the     *)
(* first table is the block's own.                                         *)
(***************************************************************************)
RECURSIVE GetBlockLoop(_, _, _, _, _)
GetBlockLoop(bs, parent, hasTable, table, name) ==
    IF ~hasTable THEN NoBlock
    ELSE IF DictHas(table, name) THEN DictAt(table, name)
    ELSE GetBlockLoop(bs,
                      IF parent = NoBlock THEN NoBlock ELSE bs[parent].parent,
                      parent # NoBlock,
                      IF parent = NoBlock THEN <<>> ELSE bs[parent].block_table,
                      name)

\* A lookup that ends after the block's own table.
GetBlockInScopeOwnTable(bs, self, name) ==
    IF DictHas(bs[self].block_table, name)
    THEN DictAt(bs[self].block_table, name) ELSE NoBlock

\* A lookup whose first table is that of the block's parent.
GetBlockInScopeFromParent(bs, self, name) ==
    IF bs[self].parent = NoBlock THEN NoBlock
    ELSE GetBlockLoop(bs, bs[bs[self].parent].parent, TRUE,
                      bs[bs[self].parent].block_table, name)

GetBlockInScope(bs, self, name) ==
    GetBlockLoop(bs, bs[self].parent, TRUE, bs[self].block_table, name)

(***************************************************************************)
(* The cursor (tree_sitter.TreeCursor), as the walker uses it.             *)
(***************************************************************************)
RECURSIVE NodeAt(_, _)
NodeAt(t, p) == IF p = <<>> THEN t ELSE NodeAt(t.kids[Head(p)], Tail(p))

CursorNode(c) == NodeAt(tree, c)

CanGotoFirstChild(c) == Len(CursorNode(c).kids) > 0

GotoFirstChild(c) == IF CanGotoFirstChild(c) THEN Append(c, 1) ELSE c

CanGotoParent(c) == Len(c) > 0

GotoParent(c) == IF CanGotoParent(c) THEN SubSeq(c, 1, Len(c) - 1) ELSE c

CanGotoNextSibling(c) ==
    /\ Len(c) > 0
    /\ c[Len(c)] < Len(CursorNode(GotoParent(c)).kids)

GotoNextSibling(c) ==
    IF CanGotoNextSibling(c) THEN [c EXCEPT ![Len(c)] = @ + 1] ELSE c

\* TreeWalker._node_type, TreeWalker._node_name
NodeType(c) == CursorNode(c).type
NodeName(c) == CursorNode(c).field

\* TreeWalker._rewind
Rewind(c) == GotoFirstChild(GotoParent(c))

(***************************************************************************)
(* consts.BUILTINS: the table of built-in names.                           *)
(***************************************************************************)
BUILTINS == {Bytes("print")}

\* parse_file's argument
FilePath == "test.py"

(***************************************************************************)
(* Exceptions.                                                             *)
(***************************************************************************)
NoError == [kind |-> "None", type |-> "None", name |-> NoName, pos |-> NoLine]

\* The error citing the last line of the first declaration.
AlreadyDeclaredAtEnd(obj, name) ==
    [kind |-> "RuntimeError", type |-> obj.type, name |-> name, pos |-> obj.ends_at]

\* RuntimeError(f'{obj.type} "{name}" already decalred on pos: {obj.starts_at}')
AlreadyDeclared(obj, name) ==
    [kind |-> "RuntimeError", type |-> obj.type, name |-> name, pos |-> obj.starts_at]

\* RuntimeError('Error in Function declaration!'), '... Class declaration!'
DeclarationError(what) ==
    [kind |-> "RuntimeError", type |-> what, name |-> NoName, pos |-> NoLine]

\* BlockType.Condition, BlockType.Loop: the enumeration has no such member
AttributeError(member) ==
    [kind |-> "AttributeError", type |-> member, name |-> NoName, pos |-> NoLine]

\* raise NotImplemented(): NotImplemented is not callable
TypeError == [kind |-> "TypeError", type |-> "None", name |-> NoName, pos |-> NoLine]

\* assert block.type == BlockType.Function
AssertionError ==
    [kind |-> "AssertionError", type |-> "None", name |-> NoName, pos |-> NoLine]

(***************************************************************************)
(* The stack of method calls.                                              *)
(***************************************************************************)
\* A call being made: the method, where it stands, its block argument, and
\* the node the cursor is on as the method is entered.
Frame(proc, pc, block) ==
    [proc |-> proc, pc |-> pc, block |-> block, entry |-> cursor']

Top == stack[Len(stack)]

Running(proc, pc) ==
    /\ status = "running"
    /\ Len(stack) > 0
    /\ Top.proc = proc
    /\ Top.pc = pc

Popped == SubSeq(stack, 1, Len(stack) - 1)

\* the caller goes on at pc
Goto(pc) == [stack EXCEPT ![Len(stack)].pc = pc]

\* the caller goes on at pc once the callee has returned
CallFrom(pc, callee) == Append(Goto(pc), callee)

\* An exception caught in parse_file, which returns the module as it is.
RaiseCaught(e) ==
    /\ status' = "returned"
    /\ error' = e
    /\ stack' = <<>>
    /\ result' = 1
    /\ UNCHANGED <<tree, found>>

\* an exception leaves every active call and parse_file
Raise(e) ==
    /\ status' = "raised"
    /\ error' = e
    /\ stack' = <<>>
    /\ UNCHANGED <<tree, result, found>>

(***************************************************************************)
(* TreeWalker._parse_function_name, TreeWalker._parse_class_name: from the *)
(* definition node to its second child and back.                           *)
(***************************************************************************)
NameCursor(c) == GotoNextSibling(GotoFirstChild(c))

NameIsIdentifier(c) == NodeType(NameCursor(c)) = "identifier"

ParseName(c) == CursorNode(NameCursor(c)).text

AfterParseName(c) == GotoParent(NameCursor(c))

(***************************************************************************)
(* TreeWalker._parse_function_definition, _parse_class_definition: the     *)
(* Block for the definition at the cursor.                                 *)
(***************************************************************************)
\* A function Block made without the end of the node.
ParseFunctionDefinitionNoEnd(c, parent) ==
    NewBlock(BlockType.Function, c, NoData, ParseName(c),
             CursorNode(c).row, NoLine, parent)

ParseFunctionDefinition(c, parent) ==
    NewBlock(BlockType.Function, c, NoData, ParseName(c),
             CursorNode(c).row, CursorNode(c).erow, parent)

ParseClassDefinition(c, parent) ==
    [NewBlock(BlockType.Class, c, NoData, ParseName(c),
              CursorNode(c).row, CursorNode(c).erow, parent)
     EXCEPT !.variable_table = DictSet(<<>>, Bytes("self"), Variable(Bytes("self")))]

(***************************************************************************)
(* TreeWalker._parse_identifier_usage: the blocks after the reference at   *)
(* the cursor was resolved from block.                                     *)
(***************************************************************************)
\* The last segment of an attribute access instead of the first.
CallableNameLastSegment(n) ==
    IF n.type = "attribute" THEN <<n.text[Len(n.text)]>> ELSE n.text

CallableName(n) == IF n.type = "attribute" THEN <<Head(n.text)>> ELSE n.text

UndefinedBlock ==
    NewBlock(BlockType.Undefined, NoNode, NoData, NoName, NoLine, NoLine, NoBlock)

\* Resolution that records nothing for a name it cannot resolve.
ParseIdentifierUsageNoPlaceholder(bs, block, n) ==
    LET callable_name == CallableName(n)
        scope_block   == GetBlockInScope(bs, block, callable_name)
    IN  IF callable_name \in BUILTINS THEN bs
        ELSE IF GetVariableInScope(bs, block, callable_name) # NoVariable THEN bs
        ELSE IF scope_block # NoBlock
             THEN [bs EXCEPT ![block].uses = Append(@, scope_block)]
        ELSE bs

\* Resolution that does not consult the table of built-ins.
ParseIdentifierUsageNoBuiltins(bs, block, n) ==
    LET callable_name == CallableName(n)
        scope_block   == GetBlockInScope(bs, block, callable_name)
    IN  IF GetVariableInScope(bs, block, callable_name) # NoVariable THEN bs
        ELSE IF scope_block # NoBlock
             THEN [bs EXCEPT ![block].uses = Append(@, scope_block)]
        ELSE [Append(bs, UndefinedBlock)
              EXCEPT ![block].uses = Append(@, Len(bs) + 1)]

ParseIdentifierUsage(bs, block, n) ==
    LET callable_name == CallableName(n)
        scope_block   == GetBlockInScope(bs, block, callable_name)
    IN  IF callable_name \in BUILTINS THEN bs
        ELSE IF GetVariableInScope(bs, block, callable_name) # NoVariable THEN bs
        ELSE IF scope_block # NoBlock
             THEN [bs EXCEPT ![block].uses = Append(@, scope_block)]
        ELSE [Append(bs, UndefinedBlock)
              EXCEPT ![block].uses = Append(@, Len(bs) + 1)]

(***************************************************************************)
(* TreeWalker._traverse_function_params: the loop over the children of the *)
(* parameters node, from the cursor c on.                                  *)
(***************************************************************************)
ParamsVariables(c, table) ==
    LET t == NodeType(c)
    IN  IF t = "identifier"
        THEN DictSet(table, CursorNode(c).text, Variable(CursorNode(c).text))
        ELSE IF t \in {"typed_parameter", "default_parameter"}
        THEN DictSet(table, CursorNode(GotoFirstChild(c)).text,
                     Variable(CursorNode(GotoFirstChild(c)).text))
        ELSE table

\* the cursor after one round: down to the first child and back
ParamsCursor(c) ==
    IF NodeType(c) \in {"typed_parameter", "default_parameter"}
    THEN GotoParent(GotoFirstChild(c)) ELSE c

RECURSIVE ParamsLoop(_, _)
ParamsLoop(c, table) ==
    LET t == ParamsVariables(c, table)
        d == ParamsCursor(c)
    IN  IF CanGotoNextSibling(d) THEN ParamsLoop(GotoNextSibling(d), t)
        ELSE [cursor |-> d, table |-> t]

TraverseFunctionParams(c, table) ==
    LET r == ParamsLoop(GotoFirstChild(c), table)
    IN  [cursor |-> GotoParent(r.cursor), table |-> r.table]

(***************************************************************************)
(* TreeWalker._parse_pattern_list: the loop over the elements of the       *)
(* pattern.                                                                *)
(***************************************************************************)
\* The splat marker itself instead of the identifier after it.
SplatCursorOnMarker(c) == GotoFirstChild(c)

SplatCursor(c) == GotoNextSibling(GotoFirstChild(c))

PatternVariables(c, table) ==
    LET t == NodeType(c)
    IN  IF t = "identifier"
        THEN DictSet(table, CursorNode(c).text, Variable(CursorNode(c).text))
        ELSE IF t = "list_splat_pattern"
        THEN DictSet(table, CursorNode(SplatCursor(c)).text,
                     Variable(CursorNode(SplatCursor(c)).text))
        ELSE table

\* the cursor after one round: the splat case leaves it on its parent
PatternCursor(c) ==
    IF NodeType(c) = "list_splat_pattern" THEN GotoParent(SplatCursor(c)) ELSE c

RECURSIVE PatternLoop(_, _)
PatternLoop(c, table) ==
    LET t == PatternVariables(c, table)
        d == PatternCursor(c)
    IN  IF CanGotoNextSibling(d) THEN PatternLoop(GotoNextSibling(d), t)
        ELSE [cursor |-> d, table |-> t]

ParsePatternList(c, table) ==
    LET r == PatternLoop(GotoFirstChild(c), table)
    IN  [cursor |-> GotoParent(r.cursor), table |-> r.table]

(***************************************************************************)
(* TreeWalker.parse_file.                                                  *)
(***************************************************************************)
\* parse_file running the statement traversal on the module as well.
ParseFileTraversing ==
    /\ status = "ready"
    /\ status' = "running"
    /\ blocks' = <<NewBlock(BlockType.Module, cursor, ModuleBlockData(FilePath),
                            NoName, NoLine, NoLine, NoBlock)>>
    /\ cursor' = cursor
    /\ stack' = <<Frame("parse_file", "return", 1),
                  Frame("_traverse_class_definition", "block", 1)>>
    /\ UNCHANGED <<tree, error, result, found>>

ParseFile ==
    /\ status = "ready"
    /\ status' = "running"
    /\ blocks' = <<NewBlock(BlockType.Module, cursor, ModuleBlockData(FilePath),
                            NoName, NoLine, NoLine, NoBlock)>>
    /\ cursor' = cursor
    /\ stack' = <<Frame("parse_file", "return", 1), Frame("_parse_block", "enter", 1)>>
    /\ UNCHANGED <<tree, error, result, found>>

ParseFileReturn ==
    /\ Running("parse_file", "return")
    /\ status' = "returned"
    /\ result' = Top.block
    /\ stack' = Popped
    /\ UNCHANGED <<tree, cursor, blocks, error, found>>

(***************************************************************************)
(* TreeWalker._parse_block.                                                *)
(***************************************************************************)
ParseBlockEnter ==
    /\ Running("_parse_block", "enter")
    /\ cursor' = GotoFirstChild(cursor)
    /\ stack' = Goto("declare")
    /\ UNCHANGED <<tree, blocks, status, error, result, found>>

\* One round of the first loop: the declaration at the cursor, if it is one,
\* is entered into block.block_table.
ParseBlockDeclare ==
    /\ Running("_parse_block", "declare")
    /\ LET block == Top.block
           type  == NodeType(cursor)
           isDef == type \in {"function_definition", "class_definition"}
           what  == IF type = "function_definition" THEN "Function" ELSE "Class"
           made  == IF type = "function_definition"
                    THEN ParseFunctionDefinition(cursor, block)
                    ELSE ParseClassDefinition(cursor, block)
           table == blocks[block].block_table
       IN  IF isDef /\ ~NameIsIdentifier(cursor)
           THEN /\ Raise(DeclarationError(what))
                /\ cursor' = NameCursor(cursor)
                /\ UNCHANGED blocks
           ELSE IF isDef /\ DictHas(table, made.name)
           THEN /\ Raise(AlreadyDeclared(blocks[DictAt(table, made.name)], made.name))
                /\ cursor' = AfterParseName(cursor)
                /\ UNCHANGED blocks
           ELSE /\ blocks' =
                     IF isDef
                     THEN [Append(blocks, made) EXCEPT ![block].block_table =
                               DictSet(@, made.name, Len(blocks) + 1)]
                     ELSE blocks
                /\ LET c == IF isDef THEN AfterParseName(cursor) ELSE cursor
                   IN  IF CanGotoNextSibling(c)
                       THEN /\ cursor' = GotoNextSibling(c)
                            /\ UNCHANGED stack
                       ELSE /\ cursor' = Rewind(c)
                            /\ stack' = Goto("resolve")
                /\ UNCHANGED <<tree, status, error, result, found>>

\* The end of a round of the second loop, and of the method after the last.
ParseBlockNext(c) ==
    IF CanGotoNextSibling(c)
    THEN /\ cursor' = GotoNextSibling(c)
         /\ stack' = Goto("resolve")
    ELSE /\ cursor' = GotoParent(c)
         /\ stack' = Popped

\* One round of the second loop: the body of the declaration at the cursor,
\* if it is one, is traversed.
ParseBlockResolve ==
    /\ Running("_parse_block", "resolve")
    /\ LET block == Top.block
           type  == NodeType(cursor)
       IN  IF type \in {"function_definition", "class_definition"}
           THEN IF ~NameIsIdentifier(cursor)
                THEN /\ Raise(DeclarationError(IF type = "function_definition"
                                               THEN "Function" ELSE "Class"))
                     /\ cursor' = NameCursor(cursor)
                     /\ UNCHANGED blocks
                ELSE /\ cursor' = AfterParseName(cursor)
                     /\ stack' = CallFrom("next",
                          Frame(IF type = "function_definition"
                                THEN "_traverse_function_definition"
                                ELSE "_traverse_class_definition",
                                "enter",
                                DictAt(blocks[block].block_table, ParseName(cursor))))
                     /\ UNCHANGED <<tree, blocks, status, error, result, found>>
           ELSE /\ ParseBlockNext(cursor)
                /\ UNCHANGED <<tree, blocks, status, error, result, found>>

ParseBlockAdvance ==
    /\ Running("_parse_block", "next")
    /\ ParseBlockNext(cursor)
    /\ UNCHANGED <<tree, blocks, status, error, result, found>>

(***************************************************************************)
(* TreeWalker._traverse_function_definition, _traverse_class_definition:   *)
(* the header, the declarations of the body, the statements of the body.   *)
(***************************************************************************)
TraverseDefinition(proc) ==
    /\ status = "running"
    /\ Len(stack) > 0
    /\ Top.proc = proc
    /\ LET block == Top.block
       IN  CASE Top.pc = "enter" ->
                  /\ cursor' = GotoFirstChild(cursor)
                  /\ stack' = CallFrom("block", Frame("_traverse_general", "loop", block))
             [] Top.pc = "block" ->
                  /\ cursor' = cursor
                  /\ stack' = CallFrom("body", Frame("_parse_block", "enter", block))
             [] Top.pc = "body" ->
                  /\ cursor' = GotoFirstChild(cursor)
                  /\ stack' = CallFrom("exit", Frame("_traverse_general", "loop", block))
             [] Top.pc = "exit" ->
                  /\ cursor' = GotoParent(GotoParent(cursor))
                  /\ stack' = Popped
    /\ UNCHANGED <<tree, blocks, status, error, result, found>>

TraverseFunctionDefinition == TraverseDefinition("_traverse_function_definition")

TraverseClassDefinition == TraverseDefinition("_traverse_class_definition")

(***************************************************************************)
(* TreeWalker._traverse_general.                                           *)
(***************************************************************************)
\* The end of a round of the loop, and of the method after the last.
TraverseGeneralNext(c) ==
    IF CanGotoNextSibling(c)
    THEN /\ cursor' = GotoNextSibling(c)
         /\ stack' = Goto("loop")
    ELSE /\ cursor' = c
         /\ stack' = Popped

\* One round of the loop: the match on the field name and type of the node
\* at the cursor.
TraverseGeneral ==
    /\ Running("_traverse_general", "loop")
    /\ LET block == Top.block
           name  == NodeName(cursor)
           type  == NodeType(cursor)
       IN  CASE type = "block" ->
                  /\ stack' = Popped
                  /\ UNCHANGED <<tree, cursor, blocks, status, error, result, found>>
             [] type # "block" /\ name = "name" /\ type = "identifier" ->
                  /\ TraverseGeneralNext(cursor)
                  /\ UNCHANGED <<tree, blocks, status, error, result, found>>
             [] type = "parameters" ->
                  IF blocks[block].type # BlockType.Function
                  THEN /\ Raise(AssertionError)
                       /\ UNCHANGED <<cursor, blocks>>
                  ELSE LET r == TraverseFunctionParams(cursor,
                                    blocks[block].variable_table)
                       IN  /\ blocks' = [blocks EXCEPT ![block].variable_table = r.table]
                           /\ TraverseGeneralNext(r.cursor)
                           /\ UNCHANGED <<tree, status, error, result, found>>
             [] type \in {"function_definition", "class_definition", "def", "class"} ->
                  /\ TraverseGeneralNext(cursor)
                  /\ UNCHANGED <<tree, blocks, status, error, result, found>>
             [] type \in {"if_statement", "for_statement", "while_statement"} ->
                  /\ Raise(AttributeError(IF type = "if_statement"
                                          THEN "Condition" ELSE "Loop"))
                  /\ UNCHANGED <<cursor, blocks>>
             [] type = "assignment" ->
                  /\ cursor' = cursor
                  /\ stack' = CallFrom("next", Frame("_traverse_assignment", "enter", block))
                  /\ UNCHANGED <<tree, blocks, status, error, result, found>>
             [] type = "attribute" \/ (type = "identifier" /\ name # "name") ->
                  /\ blocks' = ParseIdentifierUsage(blocks, block, CursorNode(cursor))
                  /\ TraverseGeneralNext(cursor)
                  /\ UNCHANGED <<tree, status, error, result, found>>
             [] OTHER ->
                  /\ IF CanGotoFirstChild(cursor)
                     THEN /\ cursor' = GotoFirstChild(cursor)
                          /\ stack' = CallFrom("up", Frame("_traverse_general", "loop", block))
                     ELSE TraverseGeneralNext(cursor)
                  /\ UNCHANGED <<tree, blocks, status, error, result, found>>

\* After the call made by a round has returned.
TraverseGeneralResume ==
    /\ status = "running"
    /\ Len(stack) > 0
    /\ Top.proc = "_traverse_general"
    /\ Top.pc \in {"up", "next"}
    /\ TraverseGeneralNext(IF Top.pc = "up" THEN GotoParent(cursor) ELSE cursor)
    /\ UNCHANGED <<tree, blocks, status, error, result, found>>

(***************************************************************************)
(* TreeWalker._traverse_assignment.                                        *)
(***************************************************************************)
\* The end of the method without the return to the assignment node.
TraverseAssignmentNextNoParent(c) ==
    IF CanGotoNextSibling(c)
    THEN /\ cursor' = GotoNextSibling(c)
         /\ stack' = Goto("loop")
    ELSE /\ cursor' = c
         /\ stack' = Popped

TraverseAssignmentNext(c) ==
    IF CanGotoNextSibling(c)
    THEN /\ cursor' = GotoNextSibling(c)
         /\ stack' = Goto("loop")
    ELSE /\ cursor' = GotoParent(c)
         /\ stack' = Popped

TraverseAssignment ==
    /\ status = "running"
    /\ Len(stack) > 0
    /\ Top.proc = "_traverse_assignment"
    /\ LET block == Top.block
           name  == NodeName(cursor)
           type  == NodeType(cursor)
           table == blocks[block].variable_table
       IN  CASE Top.pc = "enter" ->
                  /\ cursor' = GotoFirstChild(cursor)
                  /\ stack' = Goto("loop")
                  /\ UNCHANGED <<tree, blocks, status, error, result, found>>
             [] Top.pc = "next" ->
                  /\ TraverseAssignmentNext(cursor)
                  /\ UNCHANGED <<tree, blocks, status, error, result, found>>
             [] Top.pc = "loop" /\ name = "left" /\ type = "identifier" ->
                  /\ blocks' = [blocks EXCEPT ![block].variable_table =
                         DictSet(table, CursorNode(cursor).text,
                                 Variable(CursorNode(cursor).text))]
                  /\ TraverseAssignmentNext(cursor)
                  /\ UNCHANGED <<tree, status, error, result, found>>
             [] Top.pc = "loop" /\ name = "left"
                    /\ type \in {"pattern_list", "tuple_pattern"} ->
                  LET r == ParsePatternList(cursor, table)
                  IN  /\ blocks' = [blocks EXCEPT ![block].variable_table = r.table]
                      /\ TraverseAssignmentNext(r.cursor)
                      /\ UNCHANGED <<tree, status, error, result, found>>
             [] Top.pc = "loop" /\ name = "left"
                    /\ type \notin {"identifier", "pattern_list", "tuple_pattern"} ->
                  /\ Raise(TypeError)
                  /\ UNCHANGED <<cursor, blocks>>
             [] Top.pc = "loop" /\ name = "right" ->
                  /\ cursor' = cursor
                  /\ stack' = CallFrom("next", Frame("_traverse_general", "loop", block))
                  /\ UNCHANGED <<tree, blocks, status, error, result, found>>
             [] OTHER ->
                  /\ TraverseAssignmentNext(cursor)
                  /\ UNCHANGED <<tree, blocks, status, error, result, found>>

(***************************************************************************)
(* The files analysed.  Names: f, g and x are ordinary names, print is a   *)
(* built-in.                                                               *)
(***************************************************************************)
CallOf(name) == ExpressionStatement(Call(Identifier(NoField, name)))

AttributeCallOf(obj, attr) == ExpressionStatement(Call(Attribute(obj, attr)))

AssignmentOf(left, callee) ==
    ExpressionStatement(Assignment(left, Call(Identifier(NoField, callee))))

\* The statements the varied bodies are made of.
SimpleStmts ==
    {CallOf(n) : n \in {"g", "x", "print"}}
    \cup {AttributeCallOf("x", "f"),
          AssignmentOf(Identifier(NoField, "x"), "f"),
          AssignmentOf(PatternList("x", "g"), "f"),
          IfStatement(Call(Identifier(NoField, "x")))}

\* The statements that are a body on their own.
LoneStmts ==
    {CallOf("f"), AttributeCallOf("print", "f"),
     AssignmentOf(TuplePattern("g", "x"), "f"),
     AssignmentOf(Attribute("x", "f"), "f"),
     WhileStatement(Call(Identifier(NoField, "x"))),
     ForStatement(Identifier(NoField, "x"), Call(Identifier(NoField, "f")))}

\* The sequences of 1..n elements of S.
SeqsUpTo(S, n) == UNION {[1..k -> S] : k \in 1..n}

\* def f(): ..., def f(x): ..., class f: ...
Heads(stmts) ==
    {FunctionDefinition("f", <<>>, stmts), FunctionDefinition("f", <<"x">>, stmts),
     ClassDefinition("f", stmts)}

\* A definition with a varied body, before a function x.
BodyPrograms ==
    {Module(<<d, FunctionDefinition("x", <<>>, <<PassStatement>>)>>) :
        d \in UNION {Heads(b) : b \in SeqsUpTo(SimpleStmts, MaxStmts)
                                      \cup {<<s>> : s \in LoneStmts}}}

\* Functions nested in the varied definition: g, with or without a parameter
\* x, whose body is one call or, while the depth allows, one more function.
NestedStmts == {CallOf(n) : n \in {"x", "g", "h"}}

RECURSIVE NestedDefs(_)
NestedDefs(d) ==
    {FunctionDefinition("g", p, <<s>>) :
        p \in {<<>>, <<"x">>},
        s \in NestedStmts \cup (IF d = 0 THEN {} ELSE NestedDefs(d - 1))}

\* nesting below the functions nested in the varied definition
MaxDepth == 1

NestedBodies ==
    LET h == FunctionDefinition("h", <<>>, <<PassStatement>>)
        S == {CallOf("x"), CallOf("g"), AssignmentOf(Identifier(NoField, "x"), "f")}
    IN  UNION {{<<n>>, <<n, h>>} \cup {<<n, s>> : s \in S} \cup {<<s, n>> : s \in S} :
                  n \in NestedDefs(MaxDepth)}

NestedPrograms ==
    {Module(<<d, FunctionDefinition("x", <<>>, <<PassStatement>>)>>) :
        d \in UNION {Heads(b) : b \in NestedBodies}}

\* Modules of small definitions and statements.
SmallItems ==
    {FunctionDefinition(n, <<>>, <<CallOf(c)>>) :
        n \in {"f", "print"}, c \in {"x", "print"}}
    \cup {ClassDefinition(n, <<CallOf("print")>>) : n \in {"f", "print"}}
    \cup {CallOf("g"), AttributeCallOf("x", "f"),
          AssignmentOf(PatternList("x", "g"), "f"),
          AssignmentOf(Attribute("x", "f"), "f")}

SmallPrograms == {Module(items) : items \in SeqsUpTo(SmallItems, MaxItems)}

Programs ==
    {Layout(p, 0) :
        p \in {Module(<<>>)} \cup BodyPrograms \cup NestedPrograms \cup SmallPrograms}

(***************************************************************************)
(* The analysis of one file.                                               *)
(***************************************************************************)
\* No lookup made yet.
NoLookup ==
    [op |-> "None", self |-> NoBlock, name |-> NoName,
     variable |-> NoVariable, block |-> NoBlock]

Init ==
    /\ tree \in Programs
    /\ cursor = <<>>
    /\ blocks = <<>>
    /\ stack = <<>>
    /\ status = "ready"
    /\ error = NoError
    /\ result = NoBlock
    /\ found = NoLookup

Next ==
    \/ ParseFile
    \/ ParseFileReturn
    \/ ParseBlockEnter
    \/ ParseBlockDeclare
    \/ ParseBlockResolve
    \/ ParseBlockAdvance
    \/ TraverseFunctionDefinition
    \/ TraverseClassDefinition
    \/ TraverseGeneral
    \/ TraverseGeneralResume
    \/ TraverseAssignment

Spec == Init /\ [][Next]_vars

(***************************************************************************)
(* What the claims speak of.                                               *)
(***************************************************************************)
\* block, block.parent, ... up to the Module block
RECURSIVE ScopeChain(_, _)
ScopeChain(bs, b) ==
    IF b = NoBlock THEN <<>> ELSE <<b>> \o ScopeChain(bs, bs[b].parent)

\* some block of the chain has the name in its variables
VariableVisible(bs, chain, name) ==
    \E i \in 1..Len(chain) : DictHas(bs[chain[i]].variable_table, name)

\* the declaration of the name in the first block of the chain that has one
NearestDeclaration(bs, chain, name) ==
    LET has == {i \in 1..Len(chain) : DictHas(bs[chain[i]].block_table, name)}
    IN  IF has = {} THEN NoBlock
        ELSE DictAt(bs[chain[CHOOSE i \in has : \A j \in has : i <= j]].block_table,
                    name)

\* The walker is about to resolve the reference at the cursor.
AtReference ==
    /\ Running("_traverse_general", "loop")
    /\ \/ NodeType(cursor) = "attribute"
       \/ NodeType(cursor) = "identifier" /\ NodeName(cursor) # "name"

\* ... and the reference is the callee of a call.
AtCall == AtReference /\ NodeName(cursor) = "function"

\* The name the reference at the cursor is resolved by.
ReferenceName == CallableName(CursorNode(cursor))

\* The entries of kind Undefined among a block's dependencies.
UndefinedUses(bs, b) ==
    {i \in 1..Len(bs[b].uses) : bs[bs[b].uses[i]].type = BlockType.Undefined}

\* block b, and the blocks declared in it, and in those, ...
Within(bs, b) == {c \in 1..Len(bs) : \E i \in 1..Len(ScopeChain(bs, c)) :
                                          ScopeChain(bs, c)[i] = b}

\* The paths of the nodes of the given type below p, those inside a nested
\* function or class definition left out.
RECURSIVE NodesBelow(_, _)
NodesBelow(p, type) ==
    UNION {IF NodeType(Append(p, i)) \in {"function_definition", "class_definition"}
           THEN {}
           ELSE (IF NodeType(Append(p, i)) = type THEN {Append(p, i)} ELSE {})
                \cup NodesBelow(Append(p, i), type) :
           i \in 1..Len(CursorNode(p).kids)}

\* The child of the node at p with the given field name.
FieldPath(p, field) ==
    Append(p, CHOOSE i \in 1..Len(CursorNode(p).kids) :
                  CursorNode(Append(p, i)).field = field)

FieldOf(p, field) == CursorNode(FieldPath(p, field))

\* The node of the body of a block: the file for the Module block, the block
\* node of the definition otherwise.
BodyPath(bs, b) ==
    IF bs[b].type = BlockType.Module THEN bs[b].root_node
    ELSE Append(bs[b].root_node,
                CHOOSE i \in 1..Len(CursorNode(bs[b].root_node).kids) :
                    NodeType(Append(bs[b].root_node, i)) = "block")

\* The blocks that are scopes: every block but the Undefined ones.
Scopes(bs) == {b \in 1..Len(bs) : bs[b].type # BlockType.Undefined}

ModuleFunction(bs, name) ==
    LET X == {b \in 1..Len(bs) : /\ bs[b].type = BlockType.Function
                                 /\ bs[b].parent # NoBlock
                                 /\ bs[bs[b].parent].type = BlockType.Module
                                 /\ bs[b].name = name}
    IN  IF X = {} THEN NoBlock ELSE CHOOSE b \in X : TRUE

\* The names of the parameters in the header of the function of block F.
ParamNames(bs, F) ==
    LET p == Append(bs[F].root_node,
                    CHOOSE i \in 1..Len(CursorNode(bs[F].root_node).kids) :
                        NodeType(Append(bs[F].root_node, i)) = "parameters")
    IN  {CursorNode(Append(p, i)).text :
            i \in {j \in 1..Len(CursorNode(p).kids) :
                      NodeType(Append(p, j)) = "identifier"}}

\* The names the calls in the body of block b are resolved by.
CalledNames(bs, b) ==
    {CallableName(FieldOf(p, "function")) : p \in NodesBelow(BodyPath(bs, b), "call")}

\* C2 as claimed: a function F with a variable x, however declared, and a
\* module-level function x: no block within F has an edge to that function.
C2_Original ==
    \A F \in 1..Len(blocks) :
        blocks[F].type = BlockType.Function =>
            \A k \in DictKeys(blocks[F].variable_table) :
                ModuleFunction(blocks, k) # NoBlock =>
                    \A G \in Within(blocks, F) :
                        \A i \in 1..Len(blocks[G].uses) :
                            blocks[G].uses[i] # ModuleFunction(blocks, k)

\* C2 as amended: when a reference to x is resolved from F or from a block
\* within F, and x is a parameter of F or already one of F's variables, and
\* the module declares a function x, nothing is recorded.
C2_Shadowing ==
    [][\A F \in 1..Len(blocks) :
          (/\ AtReference
           /\ Top.block \in Within(blocks, F)
           /\ blocks[F].type = BlockType.Function
           /\ \/ ReferenceName \in ParamNames(blocks, F)
              \/ DictHas(blocks[F].variable_table, ReferenceName)
           /\ ModuleFunction(blocks, ReferenceName) # NoBlock)
          => /\ blocks' = blocks
             /\ status' = "running"
      ]_vars

\* A finished analysis in which a function nested in F called x, x being a
\* parameter of F and a function of the module, and recorded nothing.
C2_Witness ==
    /\ status = "returned"
    /\ \E F \in 1..Len(blocks), G \in 1..Len(blocks) :
          /\ blocks[F].type = BlockType.Function
          /\ G \in Within(blocks, F) \ {F}
          /\ blocks[G].type = BlockType.Function
          /\ \E k \in ParamNames(blocks, F) \ ParamNames(blocks, G) :
                /\ ModuleFunction(blocks, k) # NoBlock
                /\ k \in CalledNames(blocks, G)
                /\ blocks[G].uses = <<>>

(***************************************************************************)
(* C3  Unresolved case.                                                    *)
(***************************************************************************)
\* The calls in the body of block b to a name that is no built-in, no
\* variable visible from b and no declaration visible from b.
GhostCalls(bs, b) ==
    {p \in NodesBelow(BodyPath(bs, b), "call") :
        LET n == CallableName(FieldOf(p, "function"))
        IN  /\ n \notin BUILTINS
            /\ ~VariableVisible(bs, ScopeChain(bs, b), n)
            /\ NearestDeclaration(bs, ScopeChain(bs, b), n) = NoBlock}

\* C3 as claimed: once parse_file has returned, every such call in the body
\* of any block has its own Undefined entry among the block's dependencies.
C3_Original ==
    status = "returned" =>
        \A b \in Scopes(blocks) :
            Cardinality(GhostCalls(blocks, b)) <= Cardinality(UndefinedUses(blocks, b))

\* C3 as amended: when general traversal of a Function or Class block meets
\* such a call, nothing is raised and exactly one new Undefined block, with
\* no name and no span, is appended to that block's dependencies; and once
\* parse_file has returned, every such call in the body of a Function or
\* Class block has its own Undefined entry.
C3_Unresolved ==
    /\ [][(/\ AtCall
           /\ ReferenceName \notin BUILTINS
           /\ ~VariableVisible(blocks, ScopeChain(blocks, Top.block), ReferenceName)
           /\ NearestDeclaration(blocks, ScopeChain(blocks, Top.block),
                                 ReferenceName) = NoBlock)
          => /\ status' = "running"
             /\ blocks[Top.block].type \in {BlockType.Function, BlockType.Class}
             /\ Len(blocks') = Len(blocks) + 1
             /\ blocks'[Len(blocks')].type = BlockType.Undefined
             /\ blocks'[Len(blocks')].name = NoName
             /\ blocks'[Len(blocks')].starts_at = NoLine
             /\ blocks'[Len(blocks')].ends_at = NoLine
             /\ \A b \in 1..Len(blocks) :
                   blocks'[b] = IF b = Top.block
                                THEN [blocks[b] EXCEPT !.uses = Append(@, Len(blocks'))]
                                ELSE blocks[b]
         ]_vars
    /\ [](status = "returned" =>
            \A b \in Scopes(blocks) :
                blocks[b].type # BlockType.Module =>
                    Cardinality(GhostCalls(blocks, b))
                        <= Cardinality(UndefinedUses(blocks, b)))

\* A finished analysis with a function whose body has such calls, and as many
\* Undefined entries as such calls.
C3_Witness ==
    /\ status = "returned"
    /\ \E b \in Scopes(blocks) :
          /\ blocks[b].type = BlockType.Function
          /\ GhostCalls(blocks, b) # {}
          /\ Cardinality(GhostCalls(blocks, b)) = Cardinality(UndefinedUses(blocks, b))

(***************************************************************************)
(* C4  Built-in suppression.  Resolving a reference whose name (the        *)
(* identifier, or the first segment of an attribute access) is a built-in  *)
(* changes no block; a step that changes the dependencies of a block       *)
(* resolves a reference whose name is no built-in; and no dependency is a  *)
(* block named like a built-in.                                            *)
(***************************************************************************)
C4_BuiltinSuppression ==
    /\ [][/\ (AtReference /\ ReferenceName \in BUILTINS) => blocks' = blocks
          /\ (\E b \in 1..Len(blocks) : blocks'[b].uses # blocks[b].uses)
                => (AtReference /\ ReferenceName \notin BUILTINS)
         ]_vars
    /\ [](\A b \in 1..Len(blocks) : \A i \in 1..Len(blocks[b].uses) :
              blocks[blocks[b].uses[i]].name \notin BUILTINS)

\* A finished analysis with a block named like a built-in declared, and a
\* function or class in whose body the only calls are to that name (plain,
\* or as the first segment of an attribute access), without dependencies.
C4_Witness ==
    /\ status = "returned"
    /\ \E b \in Scopes(blocks), d \in Scopes(blocks) :
          /\ blocks[d].name \in BUILTINS
          /\ NearestDeclaration(blocks, ScopeChain(blocks, b), blocks[d].name) = d
          /\ CalledNames(blocks, b) = {blocks[d].name}
          /\ blocks[b].uses = <<>>

(***************************************************************************)
(* C5  Duplicate rejection.  When the declaration pass stands on a         *)
(* function or class header whose name is a key of the enclosing block's   *)
(* declarations, the step raises the already-declared error, which cites   *)
(* the kind, the name and the first line of the entry that is there, and   *)
(* changes no block; and no step ever changes or removes an entry of a     *)
(* declarations table, or the block it stands for.                         *)
(***************************************************************************)
AtDuplicate ==
    /\ Running("_parse_block", "declare")
    /\ NodeType(cursor) \in {"function_definition", "class_definition"}
    /\ DictHas(blocks[Top.block].block_table, ParseName(cursor))

C5_DuplicateRejection ==
    [][/\ AtDuplicate =>
            LET first == blocks[DictAt(blocks[Top.block].block_table, ParseName(cursor))]
            IN  /\ status' = "raised"
                /\ error'.kind = "RuntimeError"
                /\ error'.name = ParseName(cursor)
                /\ error'.type = first.type
                /\ error'.pos = first.starts_at
                /\ first.starts_at < CursorNode(cursor).row
                /\ blocks' = blocks
       /\ \A b \in 1..Len(blocks) :
             \A i \in 1..Len(blocks[b].block_table) :
                LET e == blocks[b].block_table[i]
                IN  /\ Len(blocks') >= Len(blocks)
                    /\ Len(blocks'[b].block_table) >= i
                    /\ blocks'[b].block_table[i] = e
                    /\ blocks'[e.value].name = blocks[e.value].name
                    /\ blocks'[e.value].type = blocks[e.value].type
                    /\ blocks'[e.value].starts_at = blocks[e.value].starts_at
                    /\ blocks'[e.value].ends_at = blocks[e.value].ends_at
      ]_vars

\* The analysis has failed on a second declaration of a name, the first
\* being a class and the entry of the name still that class.
C5_Witness ==
    /\ status = "raised"
    /\ error.kind = "RuntimeError"
    /\ error.type = BlockType.Class
    /\ \E b \in 1..Len(blocks) :
          /\ DictHas(blocks[b].block_table, error.name)
          /\ blocks[DictAt(blocks[b].block_table, error.name)].type = BlockType.Class
          /\ blocks[DictAt(blocks[b].block_table, error.name)].starts_at = error.pos

(***************************************************************************)
(* C6  Destructuring.                                                      *)
(***************************************************************************)
\* The assignments in the body of block b whose left side is a pattern.
Destructurings(bs, b) ==
    {p \in NodesBelow(BodyPath(bs, b), "assignment") :
        FieldOf(p, "left").type \in {"pattern_list", "tuple_pattern"}}

\* The names a pattern declares: its identifiers, and the identifier after
\* the marker of each splat element.
PatternNames(pattern) ==
    {pattern.kids[i].text :
        i \in {j \in 1..Len(pattern.kids) : pattern.kids[j].type = "identifier"}}
    \cup {pattern.kids[i].kids[2].text :
        i \in {j \in 1..Len(pattern.kids) : pattern.kids[j].type = "list_splat_pattern"}}

\* C6 as claimed: once parse_file has returned, for every such assignment in
\* the body of any block S, the names of the pattern are variables of S and
\* S has a dependency.
C6_Original ==
    status = "returned" =>
        \A S \in Scopes(blocks) :
            \A p \in Destructurings(blocks, S) :
                /\ PatternNames(FieldOf(p, "left")) \subseteq
                       DictKeys(blocks[S].variable_table)
                /\ blocks[S].uses # <<>>

\* The walker is about to resolve the callee of the call on the right of
\* the assignment at path p.
AtRightCallOf(p) ==
    /\ AtCall
    /\ Len(cursor) >= 2
    /\ p = GotoParent(GotoParent(cursor))
    /\ NodeType(p) = "assignment"
    /\ NodeName(GotoParent(cursor)) = "right"

\* C6 as amended: when general traversal of a Function or Class block S has
\* gone through such an assignment, whose elements are identifiers and splat
\* elements, the names of the pattern are variables of S; and when it
\* resolves the callee of the call on the right, they already are, and one
\* entry is appended to S.dependencies unless the callee is a built-in or a
\* variable visible from S.
C6_Destructuring ==
    /\ [](status = "returned" =>
            \A S \in Scopes(blocks) :
                blocks[S].type # BlockType.Module =>
                    \A p \in Destructurings(blocks, S) :
                        PatternNames(FieldOf(p, "left")) \subseteq
                            DictKeys(blocks[S].variable_table))
    /\ [][\A p \in {GotoParent(GotoParent(cursor))} :
            (/\ AtRightCallOf(p)
             /\ FieldOf(p, "left").type \in {"pattern_list", "tuple_pattern"})
            => /\ blocks[Top.block].type \in {BlockType.Function, BlockType.Class}
               /\ PatternNames(FieldOf(p, "left")) \subseteq
                      DictKeys(blocks[Top.block].variable_table)
               /\ status' = "running"
               /\ blocks'[Top.block].variable_table = blocks[Top.block].variable_table
               /\ Len(blocks'[Top.block].uses) =
                      Len(blocks[Top.block].uses)
                      + (IF \/ ReferenceName \in BUILTINS
                            \/ VariableVisible(blocks, ScopeChain(blocks, Top.block),
                                               ReferenceName)
                         THEN 0 ELSE 1)
         ]_vars

\* A finished analysis with a function whose body has such an assignment,
\* whose names are its variables and whose call is its dependency.
C6_Witness ==
    /\ status = "returned"
    /\ \E S \in Scopes(blocks) :
          /\ blocks[S].type = BlockType.Function
          /\ \E p \in Destructurings(blocks, S) :
                /\ Cardinality(PatternNames(FieldOf(p, "left"))) = 2
                /\ PatternNames(FieldOf(p, "left")) =
                       DictKeys(blocks[S].variable_table)
                /\ CalledNames(blocks, S) = 
                       {CallableName(FieldOf(FieldPath(p, "right"), "function"))}
                /\ Len(blocks[S].uses) = 1

(***************************************************************************)
(* C7  Attribute call simplification.  When the walker resolves an         *)
(* attribute access whose first segment is no built-in, no visible         *)
(* variable and the name of a declaration D visible from the block, the    *)
(* step appends D to the block's dependencies and changes nothing else,    *)
(* and does not go below the attribute node; and the cursor never stands   *)
(* below an attribute node, so that no segment after the first is ever     *)
(* resolved.                                                               *)
(***************************************************************************)
\* c is d or a node below d
Below(c, d) == Len(c) >= Len(d) /\ SubSeq(c, 1, Len(d)) = d

C7_AttributeCall ==
    /\ [][LET obj == CursorNode(cursor).kids[1].text
          IN
            (/\ AtReference
             /\ NodeType(cursor) = "attribute"
             /\ obj \notin BUILTINS
             /\ ~VariableVisible(blocks, ScopeChain(blocks, Top.block), obj)
             /\ NearestDeclaration(blocks, ScopeChain(blocks, Top.block), obj) # NoBlock)
            => /\ blocks' = [blocks EXCEPT ![Top.block].uses =
                     Append(@, NearestDeclaration(blocks,
                                   ScopeChain(blocks, Top.block), obj))]
               /\ status' = "running"
               /\ ~Below(cursor', cursor) \/ cursor' = cursor
         ]_vars
    /\ [](\A k \in 0..(Len(cursor) - 1) :
             NodeType(SubSeq(cursor, 1, k)) # "attribute")

\* A finished analysis with a function in whose body the only call is
\* obj.method(), obj and method both being declarations visible from it, and
\* whose only dependency is the declaration of obj.
C7_Witness ==
    /\ status = "returned"
    /\ \E b \in Scopes(blocks) :
          \E p \in NodesBelow(BodyPath(blocks, b), "attribute") :
             LET obj    == NearestDeclaration(blocks, ScopeChain(blocks, b),
                                              <<CursorNode(p).text[1]>>)
                 method == NearestDeclaration(blocks, ScopeChain(blocks, b),
                                              <<CursorNode(p).text[2]>>)
             IN  /\ obj # NoBlock
                 /\ method # NoBlock
                 /\ method # obj
                 /\ blocks[b].uses = <<obj>>

(***************************************************************************)
(* C10  As claimed: when general traversal of a block S stands on an if,   *)
(* for or while statement, the step raises nothing and makes a new block   *)
(* of kind Condition (if) or Loop (for, while), with a name, the span of   *)
(* the statement and parent S, entered in S's declarations.                *)
(***************************************************************************)
C10_Original ==
    [][(/\ Running("_traverse_general", "loop")
        /\ NodeType(cursor) \in {"if_statement", "for_statement", "while_statement"})
       => /\ status' = "running"
          /\ Len(blocks') = Len(blocks) + 1
          /\ blocks'[Len(blocks')].type =
                 (IF NodeType(cursor) = "if_statement" THEN "Condition" ELSE "Loop")
          /\ blocks'[Len(blocks')].parent = Top.block
          /\ blocks'[Len(blocks')].starts_at = CursorNode(cursor).row
          /\ blocks'[Len(blocks')].ends_at = CursorNode(cursor).erow
          /\ blocks'[Len(blocks')].name # NoName
          /\ DictHas(blocks'[Top.block].block_table, blocks'[Len(blocks')].name)
      ]_vars

(***************************************************************************)
(* C11  Atomic failure.                                                    *)
(***************************************************************************)
\* The paths of all nodes below p.
RECURSIVE PathsBelow(_)
PathsBelow(p) ==
    UNION {{Append(p, i)} \cup PathsBelow(Append(p, i)) :
              i \in 1..Len(CursorNode(p).kids)}

\* The function and class definitions of the file.
DefinitionPaths ==
    {p \in PathsBelow(<<>>) :
        NodeType(p) \in {"function_definition", "class_definition"}}

\* The names the assignments in the body of block b declare.
AssignedNames(bs, b) ==
    UNION {LET left == FieldOf(p, "left")
           IN  IF left.type = "identifier" THEN {left.text}
               ELSE IF left.type \in {"pattern_list", "tuple_pattern"}
               THEN PatternNames(left)
               ELSE {} :
           p \in NodesBelow(BodyPath(bs, b), "assignment")}

\* Nothing of the analysis is left to do.
CompletelyBuilt ==
    /\ stack = <<>>
    /\ cursor = <<>>
    /\ blocks[1].type = BlockType.Module
    /\ {blocks[b].root_node : b \in Scopes(blocks) \ {1}} = DefinitionPaths
    /\ \A b \in Scopes(blocks) \ {1} :
          /\ DictHas(blocks[blocks[b].parent].block_table, blocks[b].name)
          /\ blocks[b].type = BlockType.Function =>
                ParamNames(blocks, b) \subseteq DictKeys(blocks[b].variable_table)
          /\ AssignedNames(blocks, b) \subseteq DictKeys(blocks[b].variable_table)

AtUnsupportedTarget ==
    /\ Running("_traverse_assignment", "loop")
    /\ NodeName(cursor) = "left"
    /\ NodeType(cursor) \notin {"identifier", "pattern_list", "tuple_pattern"}

\* The assignments of the file whose left side is neither an identifier nor
\* a pattern.
UnsupportedAssignments ==
    {p \in PathsBelow(<<>>) :
        /\ NodeType(p) = "assignment"
        /\ FieldOf(p, "left").type \notin {"identifier", "pattern_list", "tuple_pattern"}}

\* C11 as claimed: parse_file returns nothing for a file with an assignment
\* whose left side is neither an identifier nor a pattern.
C11_Original ==
    UnsupportedAssignments # {} => status # "returned"

\* C11 as amended: when _traverse_assignment, which runs for the assignments
\* in the bodies of functions and classes only, stands on a left side that is
\* neither an identifier nor a pattern, the step raises: no block changes,
\* every active call is left and parse_file returns nothing.  After an
\* exception nothing more happens and there is no return value; there is a
\* return value only once parse_file has returned, and it is the Module block
\* of a tree in which every definition of the file has its block, every
\* parameter and every assigned name of a function or class is among its
\* variables, and no call is left active.
C11_AtomicFailure ==
    /\ [][/\ AtUnsupportedTarget =>
                /\ blocks[Top.block].type \in {BlockType.Function, BlockType.Class}
                /\ status' = "raised"
                /\ error'.kind = "TypeError"
                /\ blocks' = blocks
                /\ stack' = <<>>
                /\ result' = NoBlock
          /\ status = "raised" => UNCHANGED vars
         ]_vars
    /\ [](/\ status = "raised" => (result = NoBlock /\ stack = <<>>)
          /\ result # NoBlock => status = "returned"
          /\ status = "returned" => (result = 1 /\ CompletelyBuilt))

\* The analysis has failed on an assignment to an attribute, with blocks
\* already made, and has returned nothing.
C11_Witness ==
    /\ status = "raised"
    /\ error.kind = "TypeError"
    /\ NodeType(cursor) = "attribute"
    /\ NodeName(cursor) = "left"
    /\ Len(blocks) >= 2
    /\ result = NoBlock

Restoring ==
    {"parse_file", "_parse_block", "_traverse_function_definition",
     "_traverse_class_definition", "_traverse_assignment"}

\* The step is the return of the running method.
Returns ==
    /\ status = "running"
    /\ status' # "raised"
    /\ Len(stack) > 0
    /\ stack' = Popped

C13_CursorRestoration ==
    /\ [][(Returns /\ Top.proc \in Restoring) => cursor' = Top.entry]_vars
    /\ [](/\ (/\ Running("_traverse_general", "loop")
              /\ NodeType(cursor) = "parameters"
              /\ blocks[Top.block].type = BlockType.Function)
             => TraverseFunctionParams(cursor,
                    blocks[Top.block].variable_table).cursor = cursor
          /\ (/\ Running("_traverse_assignment", "loop")
              /\ NodeName(cursor) = "left"
              /\ NodeType(cursor) \in {"pattern_list", "tuple_pattern"})
             => ParsePatternList(cursor,
                    blocks[Top.block].variable_table).cursor = cursor
          /\ status = "returned" => cursor = <<>>)

\* parse_file has returned, with the cursor on the root, from a file with a
\* function nested in a function or class, parameters and an assignment.
C13_Witness ==
    /\ status = "returned"
    /\ cursor = <<>>
    /\ \E F \in Scopes(blocks), G \in Scopes(blocks) :
          /\ blocks[G].type = BlockType.Function
          /\ blocks[G].parent = F
          /\ F # 1
          /\ ParamNames(blocks, G) # {}
          /\ AssignedNames(blocks, F) # {}

(***************************************************************************)
(* C14  Module-level statements are never analysed.  No call of            *)
(* _traverse_general or _traverse_assignment is ever made for the Module   *)
(* block; the Module block never has a variable or a dependency, whatever  *)
(* the statements at the top level of the file; and a block that has a     *)
(* variable or a dependency is a Function or a Class block.                *)
(***************************************************************************)
C14_ModuleLevel ==
    /\ \A i \in 1..Len(stack) :
          stack[i].proc \in {"_traverse_general", "_traverse_assignment"}
              => blocks[stack[i].block].type # BlockType.Module
    /\ \A b \in 1..Len(blocks) :
          /\ blocks[b].type = BlockType.Module =>
                (blocks[b].variable_table = <<>> /\ blocks[b].uses = <<>>)
          /\ (blocks[b].variable_table # <<>> \/ blocks[b].uses # <<>>) =>
                blocks[b].type \in {BlockType.Function, BlockType.Class}

\* A returned tree of a file with an assignment and a call at the top level
\* and a function with a dependency: the Module block has neither variables
\* nor dependencies.
C14_Witness ==
    /\ status = "returned"
    /\ NodesBelow(<<>>, "assignment") # {}
    /\ NodesBelow(<<>>, "call") # {}
    /\ blocks[result].type = BlockType.Module
    /\ blocks[result].variable_table = <<>>
    /\ blocks[result].uses = <<>>
    /\ \E b \in Scopes(blocks) : blocks[b].uses # <<>>

(***************************************************************************)
(* The two lookups on their own: on a chain of blocks, the Module block    *)
(* first and each next block declared in the one before, each with or      *)
(* without a variable x and with or without a declaration x of its own.    *)
(***************************************************************************)
\* The name in the tables, and a name in none.
LookupNames == {Bytes("x"), Bytes("y")}

\* The blocks of the chain are 1..k; the declarations x follow, in the order
\* of the blocks that have one.
ScopeChainOf(k, hasVariable, hasDeclaration) ==
    LET x == Bytes("x")
        owners == {i \in 1..k : hasDeclaration[i]}
        leafOf(i) == k + Cardinality({j \in owners : j <= i})
        link(i) ==
            [NewBlock(IF i = 1 THEN BlockType.Module ELSE BlockType.Function,
                      NoNode, NoData, IF i = 1 THEN NoName ELSE Bytes("c"),
                      IF i = 1 THEN NoLine ELSE i, IF i = 1 THEN NoLine ELSE i + k,
                      i - 1)
             EXCEPT !.variable_table =
                        IF hasVariable[i] THEN DictSet(<<>>, x, Variable(x)) ELSE <<>>,
                    !.block_table =
                        (IF i < k THEN DictSet(<<>>, Bytes("c"), i + 1) ELSE <<>>)
                        \o (IF hasDeclaration[i]
                            THEN <<[key |-> x, value |-> leafOf(i)]>> ELSE <<>>)]
        leaf(n) ==
            LET i == CHOOSE j \in owners : leafOf(j) = n
            IN  NewBlock(BlockType.Function, NoNode, NoData, x, i + 1, i + 1, i)
    IN  [n \in 1..(k + Cardinality(owners)) |-> IF n <= k THEN link(n) ELSE leaf(n)]

ScopeChains ==
    UNION {{ScopeChainOf(k, v, d) : v \in [1..k -> BOOLEAN], d \in [1..k -> BOOLEAN]} :
              k \in 1..MaxChain}

LookupInit ==
    /\ tree = Layout(Module(<<>>), 0)
    /\ cursor = <<>>
    /\ blocks \in ScopeChains
    /\ stack = <<>>
    /\ status = "lookup"
    /\ error = NoError
    /\ result = NoBlock
    /\ found = NoLookup

\* block.get_variable_in_scope(name)
LookupVariable ==
    /\ status = "lookup"
    /\ \E self \in 1..Len(blocks), name \in LookupNames :
          found' = [op |-> "get_variable_in_scope", self |-> self, name |-> name,
                    variable |-> GetVariableInScope(blocks, self, name),
                    block |-> NoBlock]
    /\ UNCHANGED <<tree, cursor, blocks, stack, status, error, result>>

\* block.get_block_in_scope(name)
LookupBlock ==
    /\ status = "lookup"
    /\ \E self \in 1..Len(blocks), name \in LookupNames :
          found' = [op |-> "get_block_in_scope", self |-> self, name |-> name,
                    variable |-> NoVariable,
                    block |-> GetBlockInScope(blocks, self, name)]
    /\ UNCHANGED <<tree, cursor, blocks, stack, status, error, result>>

LookupNext == LookupVariable \/ LookupBlock

SpecLookup == LookupInit /\ [][LookupNext]_vars

(***************************************************************************)
(* C8  As claimed: lookup_variable(block, name) finds the variable exactly *)
(* when some block of the chain block, block.parent, ..., the Module block *)
(* included, has the name in its variables.                                *)
(***************************************************************************)
C8_Original ==
    found.op = "get_variable_in_scope" =>
        /\ found.variable # NoVariable
              <=> VariableVisible(blocks, ScopeChain(blocks, found.self), found.name)
        /\ found.variable # NoVariable => found.variable = Variable(found.name)

(***************************************************************************)
(* C9                                                                      *)
(***************************************************************************)
\* C9 as claimed: lookup_declaration(block, name) is the nearest declaration
\* of the name in the tables of block.parent and its ancestors, the table of
\* block itself left out.
C9_Original ==
    found.op = "get_block_in_scope" =>
        found.block = NearestDeclaration(blocks,
                          ScopeChain(blocks, blocks[found.self].parent), found.name)

\* C9 as amended: lookup_declaration(block, name) is the nearest declaration
\* of the name in the tables of block itself, block.parent and its ancestors
\* up to the Module block, or not found: a name declared in block's own
\* declarations is found by a lookup started from block.
C9_LookupDeclaration ==
    found.op = "get_block_in_scope" =>
        found.block = NearestDeclaration(blocks,
                          ScopeChain(blocks, found.self), found.name)

\* A lookup from a block answered from the block's own declarations, the name
\* being declared in the block's parent too.
C9_Witness ==
    /\ found.op = "get_block_in_scope"
    /\ blocks[found.self].parent # NoBlock
    /\ DictHas(blocks[found.self].block_table, found.name)
    /\ DictHas(blocks[blocks[found.self].parent].block_table, found.name)
    /\ found.block = DictAt(blocks[found.self].block_table, found.name)

=============================================================================
